---- MODULE Spec2Model ----
(***************************************************************************)
(* Student Performance Dashboard (app.py): the record store kept in the    *)
(* Streamlit session, the grading policies, the statistics, and one script *)
(* run of main() per user event.                                           *)
(*                                                                         *)
(* Text (form inputs, CSV files) is a sequence of one-character strings.   *)
(* A cell of a table is a tagged value: a string, an integer, a float with *)
(* an integral value, or NaN.  A float mean is kept as the exact fraction  *)
(* num/den (den = 0 is NaN): for the sums reached here the IEEE quotient   *)
(* compares with an integer threshold exactly as the fraction does.        *)
(***************************************************************************)
EXTENDS Integers, Sequences, FiniteSets, TLC

VARIABLES students, uploaded, shown, event, exported

vars == <<students, uploaded, shown, event, exported>>

(* ------------------------------ bounds -------------------------------- *)

MaxStudents == 2
MaxTextLen == 4
MaxGradeMarks == 3
MaxStatStudents == 2
MaxStatMarks == 2
MaxExportRows == 2

(* ------------------------------- text --------------------------------- *)

Digits == <<"0", "1", "2", "3", "4", "5", "6", "7", "8", "9">>

IsDigit(c) == \E d \in 1..10 : Digits[d] = c

DigitVal(c) == (CHOOSE d \in 1..10 : Digits[d] = c) - 1

IsSpace(c) == c \in {" ", "\t", "\n", "\r"}

RECURSIVE NatToStr(_)
NatToStr(n) == IF n < 10 THEN <<Digits[n + 1]>>
               ELSE NatToStr(n \div 10) \o <<Digits[(n % 10) + 1]>>

IntToStr(n) == IF n < 0 THEN <<"-">> \o NatToStr(0 - n) ELSE NatToStr(n)

RECURSIVE DigitsToNat(_)
DigitsToNat(s) == IF s = <<>> THEN 0
                  ELSE 10 * DigitsToNat(SubSeq(s, 1, Len(s) - 1)) + DigitVal(s[Len(s)])

StrCell(s) == [t |-> "str", s |-> s, n |-> 0]

IntCell(n) == [t |-> "int", s |-> <<>>, n |-> n]

FloatCell(n) == [t |-> "float", s |-> <<>>, n |-> n]

NaNCell == [t |-> "nan", s |-> <<>>, n |-> 0]

(* ------------------------- Student, get_grade -------------------------- *)

RECURSIVE SumSeq(_)
SumSeq(s) == IF s = <<>> THEN 0 ELSE s[1] + SumSeq(Tail(s))

Mean(marks) == [num |-> SumSeq(marks), den |-> Len(marks)]

AvgGE(avg, t) == avg.den > 0 /\ avg.num >= t * avg.den

Student(name, roll, marks) ==
    [name |-> name, roll |-> roll, marks |-> marks, kind |-> "Student"]

GraduateStudent(name, roll, marks) ==
    [name |-> name, roll |-> roll, marks |-> marks, kind |-> "GraduateStudent"]

AvgGT(avg, t) == avg.den > 0 /\ avg.num > t * avg.den

(* Student.get_grade with exclusive lower bounds. *)
Student_get_grade_exclusive(s) ==
    LET avg == Mean(s.marks)
    IN  IF AvgGT(avg, 90) THEN "A"
        ELSE IF AvgGT(avg, 75) THEN "B"
        ELSE IF AvgGT(avg, 50) THEN "C"
        ELSE "F"

Student_get_grade(s) ==
    LET avg == Mean(s.marks)
    IN  IF AvgGE(avg, 90) THEN "A"
        ELSE IF AvgGE(avg, 75) THEN "B"
        ELSE IF AvgGE(avg, 50) THEN "C"
        ELSE "F"

GraduateStudent_get_grade(s) ==
    LET avg == Mean(s.marks)
    IN  IF AvgGE(avg, 40) THEN "Pass" ELSE "Fail"

get_grade(s) == IF s.kind = "GraduateStudent" THEN GraduateStudent_get_grade(s)
                ELSE Student_get_grade(s)

get_marks(s) == s.marks

(* --------------------------- StudentManager ---------------------------- *)

(* add_student that keeps one record per roll identifier. *)
add_student_unique(list, student) ==
    IF \E i \in 1..Len(list) : list[i].roll = student.roll THEN list
    ELSE Append(list, student)

add_student(list, student) == Append(list, student)

Columns == <<"Name", "Roll", "Marks", "Grade">>

to_dataframe(list) ==
    [columns |-> Columns,
     rows |-> [i \in 1..Len(list) |->
                 [Name |-> list[i].name, Roll |-> list[i].roll,
                  Marks |-> get_marks(list[i]), Grade |-> get_grade(list[i])]]]

df_empty(df) == Len(df.rows) = 0

(* ------------------------- PerformanceAnalyzer ------------------------- *)

RECURSIVE Concatenate(_)
Concatenate(lists) == IF lists = <<>> THEN <<>>
                      ELSE lists[1] \o Concatenate(Tail(lists))

SeqMax(s) == CHOOSE x \in {s[i] : i \in 1..Len(s)} : \A j \in 1..Len(s) : s[j] <= x

SeqMin(s) == CHOOSE x \in {s[i] : i \in 1..Len(s)} : \A j \in 1..Len(s) : x <= s[j]

EmptyDict == [k \in {} |-> 0]

RECURSIVE ProdSeq(_)
ProdSeq(s) == IF s = <<>> THEN 1 ELSE s[1] * ProdSeq(Tail(s))

(* analyze that averages the per-student means. *)
analyze_per_student(df) ==
    IF df_empty(df) THEN EmptyDict
    ELSE LET all_marks == Concatenate([i \in 1..Len(df.rows) |-> df.rows[i].Marks])
             p == ProdSeq([i \in 1..Len(df.rows) |-> Len(df.rows[i].Marks)])
             parts == [i \in 1..Len(df.rows) |->
                         SumSeq(df.rows[i].Marks) * (p \div Len(df.rows[i].Marks))]
         IN  [k \in {"Average Marks", "Highest Marks", "Lowest Marks"} |->
                CASE k = "Average Marks" -> [num |-> SumSeq(parts), den |-> Len(df.rows) * p]
                  [] k = "Highest Marks" -> SeqMax(all_marks)
                  [] k = "Lowest Marks" -> SeqMin(all_marks)]

analyze(df) ==
    IF df_empty(df) THEN EmptyDict
    ELSE LET all_marks == Concatenate([i \in 1..Len(df.rows) |-> df.rows[i].Marks])
         IN  [k \in {"Average Marks", "Highest Marks", "Lowest Marks"} |->
                CASE k = "Average Marks" -> Mean(all_marks)
                  [] k = "Highest Marks" -> SeqMax(all_marks)
                  [] k = "Lowest Marks" -> SeqMin(all_marks)]

(* ------------------- the add-student form (lines 90-97) ---------------- *)

IndexOf(s, c) == IF \E i \in 1..Len(s) : s[i] = c
                 THEN CHOOSE i \in 1..Len(s) : s[i] = c /\ \A j \in 1..(i - 1) : s[j] # c
                 ELSE 0

(* str.split(sep): always at least one token; empty tokens are kept. *)
RECURSIVE Split(_, _)
Split(s, sep) ==
    LET i == IndexOf(s, sep)
    IN  IF i = 0 THEN <<s>>
        ELSE <<SubSeq(s, 1, i - 1)>> \o Split(SubSeq(s, i + 1, Len(s)), sep)

RECURSIVE LStrip(_)
LStrip(s) == IF s # <<>> /\ IsSpace(s[1]) THEN LStrip(Tail(s)) ELSE s

RECURSIVE RStrip(_)
RStrip(s) == IF s # <<>> /\ IsSpace(s[Len(s)]) THEN RStrip(SubSeq(s, 1, Len(s) - 1)) ELSE s

Strip(s) == RStrip(LStrip(s))

RemoveUnderscores(s) == SelectSeq(s, LAMBDA c : c # "_")

(* The digit part of a Python integer: digits, single underscores between them. *)
DigitGroupOK(b) ==
    /\ b # <<>>
    /\ \A i \in 1..Len(b) : IsDigit(b[i]) \/ b[i] = "_"
    /\ IsDigit(b[1]) /\ IsDigit(b[Len(b)])
    /\ \A i \in 1..(Len(b) - 1) : ~(b[i] = "_" /\ b[i + 1] = "_")

(* int(text): surrounding whitespace dropped, an optional sign, decimal digits
   (leading zeros allowed); anything else raises ValueError. *)
PyInt(tok) ==
    LET s == Strip(tok)
        signed == s # <<>> /\ s[1] \in {"+", "-"}
        body == IF signed THEN Tail(s) ELSE s
        mag == DigitsToNat(RemoveUnderscores(body))
    IN  IF DigitGroupOK(body)
        THEN [ok |-> TRUE, v |-> IF signed /\ s[1] = "-" THEN 0 - mag ELSE mag]
        ELSE [ok |-> FALSE, v |-> 0]

(* The list comprehension with a blank token read as zero ("int(m.strip() or 0)"). *)
ParseMarksBlankZero(marks) ==
    LET toks == Split(marks, ",")
        ints == [i \in 1..Len(toks) |->
                    IF Strip(toks[i]) = <<>> THEN [ok |-> TRUE, v |-> 0]
                    ELSE PyInt(Strip(toks[i]))]
    IN  IF \A i \in 1..Len(toks) : ints[i].ok
        THEN [ok |-> TRUE, v |-> [i \in 1..Len(toks) |-> ints[i].v]]
        ELSE [ok |-> FALSE, v |-> <<>>]

(* [int(m.strip()) for m in marks.split(",")]: the list, or the exception. *)
ParseMarks(marks) ==
    LET toks == Split(marks, ",")
        ints == [i \in 1..Len(toks) |-> PyInt(Strip(toks[i]))]
    IN  IF \A i \in 1..Len(toks) : ints[i].ok
        THEN [ok |-> TRUE, v |-> [i \in 1..Len(toks) |-> ints[i].v]]
        ELSE [ok |-> FALSE, v |-> <<>>]

NoForm == [submit |-> FALSE, name |-> <<>>, roll |-> <<>>, marks |-> <<>>,
           st_type |-> "Normal"]

Form(name, roll, marks, st_type) ==
    [submit |-> TRUE, name |-> name, roll |-> roll, marks |-> marks, st_type |-> st_type]

(* Lines 93-95, reached when the marks parsed: the record of the chosen type. *)
NewStudent(form, marks_list) ==
    IF form.st_type = "Graduate"
    THEN GraduateStudent(StrCell(form.name), StrCell(form.roll), marks_list)
    ELSE Student(StrCell(form.name), StrCell(form.roll), marks_list)

(* try: ... except: p is what the list comprehension gave. *)
TryAdd(list, form, p) ==
    IF p.ok THEN [students |-> add_student(list, NewStudent(form, p.v)), msg |-> "success"]
    ELSE [students |-> list, msg |-> "error"]

(* The body of "with st.sidebar.form": the store after it and the sidebar message. *)
SubmitHandler(list, form) ==
    IF ~form.submit THEN [students |-> list, msg |-> "none"]
    ELSE TryAdd(list, form, ParseMarks(form.marks))

(* ---------------------- CSV export (df.to_csv) ------------------------- *)

RECURSIVE Join(_, _)
Join(parts, sep) == IF parts = <<>> THEN <<>>
                    ELSE IF Len(parts) = 1 THEN parts[1]
                    ELSE parts[1] \o sep \o Join(Tail(parts), sep)

(* str(list_of_int): "[80, 90, 85]". *)
ListRepr(marks) ==
    <<"[">> \o Join([i \in 1..Len(marks) |-> IntToStr(marks[i])], <<",", " ">>) \o <<"]">>

GradeText(g) ==
    CASE g = "A" -> <<"A">>
      [] g = "B" -> <<"B">>
      [] g = "C" -> <<"C">>
      [] g = "F" -> <<"F">>
      [] g = "Pass" -> <<"P", "a", "s", "s">>
      [] g = "Fail" -> <<"F", "a", "i", "l">>

(* How to_csv writes one value: NaN as the empty field, a float with ".0". *)
CellText(c) ==
    CASE c.t = "str" -> c.s
      [] c.t = "int" -> IntToStr(c.n)
      [] c.t = "float" -> IntToStr(c.n) \o <<".", "0">>
      [] c.t = "nan" -> <<>>

RECURSIVE DoubleQuotes(_)
DoubleQuotes(s) == IF s = <<>> THEN <<>>
                   ELSE (IF s[1] = "\"" THEN <<"\"", "\"">> ELSE <<s[1]>>)
                        \o DoubleQuotes(Tail(s))

(* csv.QUOTE_MINIMAL *)
QuoteField(s) ==
    IF \E i \in 1..Len(s) : s[i] \in {",", "\"", "\n", "\r"}
    THEN <<"\"">> \o DoubleQuotes(s) \o <<"\"">>
    ELSE s

HeaderLine == <<"N", "a", "m", "e", ",", "R", "o", "l", "l", ",",
                "M", "a", "r", "k", "s", ",", "G", "r", "a", "d", "e", "\n">>

RowLine(r) ==
    Join(<<QuoteField(CellText(r.Name)), QuoteField(CellText(r.Roll)),
           QuoteField(ListRepr(r.Marks)), QuoteField(GradeText(r.Grade))>>, <<",">>)
    \o <<"\n">>

(* df.to_csv(index=False) *)
to_csv(df) == HeaderLine \o Concatenate([i \in 1..Len(df.rows) |-> RowLine(df.rows[i])])

(* ---------------------- CSV import (pd.read_csv) ----------------------- *)

(* The tokenizer: fields end at a comma, records at a line end; a field that
   opens with a quote runs to its closing quote and may hold both, "" inside
   it is one quote; blank lines are skipped. *)
Least(S, otherwise) ==
    IF S = {} THEN otherwise ELSE CHOOSE j \in S : \A k \in S : j <= k

QuotesIn(text, a, b) == Cardinality({j \in a..b : text[j] = "\""})

(* The closing quote of the quoted field that opens at i. *)
ClosingQuote(text, i) ==
    Least({j \in (i + 1)..Len(text) :
              /\ text[j] = "\""
              /\ QuotesIn(text, i + 1, j) % 2 = 1
              /\ (j = Len(text) \/ text[j + 1] # "\"")},
          Len(text) + 1)

(* The text between the quotes, each "" read as one quote. *)
Unescape(text, a, b) ==
    LET keep == {j \in a..b : text[j] # "\"" \/ QuotesIn(text, a, j) % 2 = 0}
        nth(k) == CHOOSE j \in keep : Cardinality({x \in keep : x < j}) = k - 1
    IN  [k \in 1..Cardinality(keep) |-> text[nth(k)]]

(* The first separator at or after i. *)
SeparatorFrom(text, i) ==
    Least({j \in i..Len(text) : text[j] \in {",", "\n", "\r"}}, Len(text) + 1)

FieldEnd(text, i) ==
    IF text[i] = "\""
    THEN SeparatorFrom(text, ClosingQuote(text, i) + 1)
    ELSE SeparatorFrom(text, i)

FieldText(text, i) ==
    IF text[i] = "\""
    THEN Unescape(text, i + 1, ClosingQuote(text, i) - 1)
    ELSE SubSeq(text, i, FieldEnd(text, i) - 1)

RECURSIVE Fields(_, _, _, _)
Fields(text, i, row, rows) ==
    IF i > Len(text)
    THEN IF row # <<>> THEN Append(rows, Append(row, <<>>)) ELSE rows
    ELSE IF FieldEnd(text, i) > Len(text)
         THEN Append(rows, Append(row, FieldText(text, i)))
    ELSE IF text[FieldEnd(text, i)] = ","
         THEN Fields(text, FieldEnd(text, i) + 1, Append(row, FieldText(text, i)), rows)
    ELSE IF FieldEnd(text, i) = i /\ row = <<>>
         THEN Fields(text, i + 1, <<>>, rows)
    ELSE Fields(text, FieldEnd(text, i) + 1, <<>>,
                Append(rows, Append(row, FieldText(text, i))))

Tokenize(text) == Fields(text, 1, <<>>, <<>>)

(* pandas' default na_values *)
NAValues ==
    {<<>>,
     <<"#", "N", "/", "A">>,
     <<"#", "N", "/", "A", " ", "N", "/", "A">>,
     <<"#", "N", "A">>,
     <<"-", "1", ".", "#", "I", "N", "D">>,
     <<"-", "1", ".", "#", "Q", "N", "A", "N">>,
     <<"-", "N", "a", "N">>,
     <<"-", "n", "a", "n">>,
     <<"1", ".", "#", "I", "N", "D">>,
     <<"1", ".", "#", "Q", "N", "A", "N">>,
     <<"<", "N", "A", ">">>,
     <<"N", "/", "A">>,
     <<"N", "A">>,
     <<"N", "U", "L", "L">>,
     <<"N", "a", "N">>,
     <<"N", "o", "n", "e">>,
     <<"n", "/", "a">>,
     <<"n", "a", "n">>,
     <<"n", "u", "l", "l">>}

(* What the parser reads as an integer: an optional sign and decimal digits. *)
CIntOK(s) ==
    LET body == IF s # <<>> /\ s[1] \in {"+", "-"} THEN Tail(s) ELSE s
    IN  body # <<>> /\ \A i \in 1..Len(body) : IsDigit(body[i])

CIntVal(s) ==
    IF s[1] = "-" THEN 0 - DigitsToNat(Tail(s))
    ELSE IF s[1] = "+" THEN DigitsToNat(Tail(s))
    ELSE DigitsToNat(s)

(* The dtype read_csv infers for one column, applied to its values: int64 when
   every value is an integer, float64 when the others are missing, else object
   (strings, NaN for the missing).  The texts drawn here hold no float or
   boolean syntax, so those dtypes do not arise. *)
InferColumn(vals) ==
    LET isna(i) == vals[i] \in NAValues
        allint == \A i \in 1..Len(vals) : isna(i) \/ CIntOK(vals[i])
        anyna == \E i \in 1..Len(vals) : isna(i)
    IN  [i \in 1..Len(vals) |->
           IF isna(i) THEN NaNCell
           ELSE IF allint THEN (IF anyna THEN FloatCell(CIntVal(vals[i]))
                                ELSE IntCell(CIntVal(vals[i])))
           ELSE StrCell(vals[i])]

(* pd.read_csv(uploaded): the header row names the columns; a short row is
   padded with missing values; a row longer than the header, or no header at
   all, raises. *)
Frame(header, body) ==
    LET cell(i, j) == IF j <= Len(body[i]) THEN body[i][j] ELSE <<>>
        cols == [j \in 1..Len(header) |-> InferColumn([i \in 1..Len(body) |-> cell(i, j)])]
    IN  IF \E i \in 1..Len(body) : Len(body[i]) > Len(header)
        THEN [ok |-> FALSE, columns |-> <<>>, rows |-> <<>>]
        ELSE [ok |-> TRUE, columns |-> header,
              rows |-> [i \in 1..Len(body) |-> [j \in 1..Len(header) |-> cols[j][i]]]]

FrameOf(recs) ==
    IF recs = <<>> THEN [ok |-> FALSE, columns |-> <<>>, rows |-> <<>>]
    ELSE Frame(recs[1], Tail(recs))

read_csv(text) == FrameOf(Tokenize(text))

(* An integer literal of Python source: no leading zeros. *)
PyLiteralInt(tok) ==
    LET signed == tok # <<>> /\ tok[1] \in {"+", "-"}
        body == IF signed THEN Tail(tok) ELSE tok
        digits == RemoveUnderscores(body)
        mag == DigitsToNat(digits)
    IN  IF DigitGroupOK(body) /\ (digits[1] # "0" \/ mag = 0)
        THEN [ok |-> TRUE, v |-> IF signed /\ tok[1] = "-" THEN 0 - mag ELSE mag]
        ELSE [ok |-> FALSE, v |-> 0]

(* eval(text) of a list display of integer literals, the form to_csv writes a
   Marks cell in; any other text is taken to raise. *)
PyEvalList(text) ==
    LET s == Strip(text)
        inner == SubSeq(s, 2, Len(s) - 1)
        parts == Split(inner, ",")
        elems == IF Len(parts) > 1 /\ Strip(parts[Len(parts)]) = <<>>
                 THEN SubSeq(parts, 1, Len(parts) - 1) ELSE parts
        ints == [i \in 1..Len(elems) |-> PyLiteralInt(Strip(elems[i]))]
    IN  IF Len(s) < 2 \/ s[1] # "[" \/ s[Len(s)] # "]"
        THEN [ok |-> FALSE, v |-> <<>>]
        ELSE IF Strip(inner) = <<>> THEN [ok |-> TRUE, v |-> <<>>]
        ELSE IF \A i \in 1..Len(elems) : ints[i].ok
             THEN [ok |-> TRUE, v |-> [i \in 1..Len(elems) |-> ints[i].v]]
             ELSE [ok |-> FALSE, v |-> <<>>]

NameText == <<"N", "a", "m", "e">>

RollText == <<"R", "o", "l", "l">>

MarksText == <<"M", "a", "r", "k", "s">>

(* The row built as a GraduateStudent. *)
RowStudentGraduate(name, roll, marks_list) == GraduateStudent(name, roll, marks_list)

(* The student built from one row of the file (lines 159-160). *)
RowStudent(name, roll, marks_list) == Student(name, roll, marks_list)

(* for _, row in data.iterrows(): ... add_student; a row whose Marks text does
   not evaluate raises and ends the loop, the earlier rows staying appended. *)
RECURSIVE ImportRows(_, _, _, _, _, _)
ImportRows(list, data, i, cn, cr, cm) ==
    IF i > Len(data.rows) THEN [students |-> list, ok |-> TRUE]
    ELSE LET row == data.rows[i]
             ev == IF row[cm].t = "str" THEN PyEvalList(row[cm].s)
                   ELSE [ok |-> TRUE, v |-> row[cm]]
         IN  IF ~ev.ok THEN [students |-> list, ok |-> FALSE]
             ELSE ImportRows(add_student(list, RowStudent(row[cn], row[cr], ev.v)),
                             data, i + 1, cn, cr, cm)

(* Lines 156-162: the store after the upload block and its message. *)
Loaded(r) == [students |-> r.students, msg |-> IF r.ok THEN "success" ELSE "exception"]

(* Lines 158-162 on the frame read; a column the loop asks for and the file
   lacks raises KeyError at the first row. *)
ImportFrame(list, data) ==
    LET cn == IndexOf(data.columns, NameText)
        cr == IndexOf(data.columns, RollText)
        cm == IndexOf(data.columns, MarksText)
    IN  IF ~data.ok THEN [students |-> list, msg |-> "exception"]
        ELSE IF data.rows = <<>> THEN [students |-> list, msg |-> "success"]
        ELSE IF cn = 0 \/ cr = 0 \/ cm = 0 THEN [students |-> list, msg |-> "exception"]
        ELSE Loaded(ImportRows(list, data, 1, cn, cr, cm))

UploadHandler(list, upl) ==
    IF ~upl.held THEN [students |-> list, msg |-> "none"]
    ELSE ImportFrame(list, read_csv(upl.data))

(* ----------------------------- the views ------------------------------- *)

RecordsTab(df) == IF df_empty(df) THEN [kind |-> "info", df |-> df]
                  ELSE [kind |-> "dataframe", df |-> df]

AnalysisTab(df) == IF ~df_empty(df) THEN [kind |-> "json", stats |-> analyze(df)]
                   ELSE [kind |-> "info", stats |-> EmptyDict]

(* The columns Sub1..SubK that df["Marks"].apply(pd.Series) makes. *)
SubColumns(df) ==
    LET lens == {Len(df.rows[i].Marks) : i \in 1..Len(df.rows)}
    IN  CHOOSE k \in lens : \A l \in lens : l <= k

(* Lines 124-143: expanded_df[["Sub1", "Sub2", "Sub3"]] raises KeyError when
   one of the three columns is missing. *)
VisualizationTab(df) ==
    IF df_empty(df) THEN "info"
    ELSE IF SubColumns(df) >= 3 THEN "charts"
    ELSE "KeyError"

(* The download button offered without the df.empty test. *)
DownloadButtonAlways(df) == [offered |-> TRUE, data |-> to_csv(df)]

DownloadButton(df) == IF ~df_empty(df) THEN [offered |-> TRUE, data |-> to_csv(df)]
                      ELSE [offered |-> FALSE, data |-> <<>>]

NoFile == [held |-> FALSE, data |-> <<>>]

File(text) == [held |-> TRUE, data |-> text]

(* One run of main(): the store after it and what each view showed.  An
   exception in the Visualizations tab ends the run before the Save/Load tab. *)
SaveLoadTab(list, df, upl, viz) ==
    IF viz # "KeyError"
    THEN [download |-> DownloadButton(df), up |-> UploadHandler(list, upl)]
    ELSE [download |-> [offered |-> FALSE, data |-> <<>>],
          up |-> [students |-> list, msg |-> "notreached"]]

Page(msg, df, viz, tab4) ==
    [students |-> tab4.up.students,
     shown |-> [form |-> msg,
                records |-> RecordsTab(df),
                analysis |-> AnalysisTab(df),
                viz |-> viz,
                download |-> tab4.download,
                upload |-> tab4.up.msg]]

Tabs(list, msg, df, upl) ==
    Page(msg, df, VisualizationTab(df), SaveLoadTab(list, df, upl, VisualizationTab(df)))

AfterForm(f, upl) == Tabs(f.students, f.msg, to_dataframe(f.students), upl)

main(list, form, upl) == AfterForm(SubmitHandler(list, form), upl)

(* ----------------------------- the actions ----------------------------- *)

NotSaved == [saved |-> FALSE, data |-> <<>>, table |-> <<>>]

Event(kind, form) == [kind |-> kind, form |-> form]

(* A script run on a user event; cap bounds the size of the store. *)
Run(form, upl, ev, cap) ==
    \E r \in {main(students, form, upl)} :
        /\ Len(r.students) <= cap
        /\ students' = r.students
        /\ shown' = r.shown
        /\ uploaded' = upl
        /\ event' = Event(ev, form)

SubmitForm(name, roll, marks, st_type, cap) ==
    /\ Run(Form(name, roll, marks, st_type), uploaded, "submit", cap)
    /\ UNCHANGED exported

UploadFile(text, cap) ==
    /\ Run(NoForm, File(text), "upload", cap)
    /\ UNCHANGED exported

ClearUpload(cap) ==
    /\ uploaded.held
    /\ Run(NoForm, NoFile, "clear", cap)
    /\ UNCHANGED exported

(* A rerun with no new input: the Rerun command, or any widget event that
   carries none. *)
Rerun(cap) ==
    /\ Run(NoForm, uploaded, "rerun", cap)
    /\ UNCHANGED exported

(* A click on the download button saves the offered file and reruns. *)
Download(cap) ==
    /\ shown.download.offered
    /\ exported' = [saved |-> TRUE, data |-> shown.download.data,
                    table |-> shown.records.df.rows]
    /\ Run(NoForm, uploaded, "download", cap)

(* A new browser session: "manager" is not in st.session_state (lines 76-77). *)
NewSession ==
    \E r \in {main(<<>>, NoForm, NoFile)} :
        /\ students' = r.students
        /\ shown' = r.shown
        /\ uploaded' = NoFile
        /\ event' = Event("session", NoForm)
        /\ UNCHANGED exported

UploadSaved(cap) ==
    /\ exported.saved
    /\ Run(NoForm, File(exported.data), "upload", cap)
    /\ UNCHANGED exported

(* The state a session is in after a run on the store list with the file upl
   in the uploader. *)
Opened(list, upl) ==
    \E r \in {main(list, NoForm, upl)} :
        /\ students = r.students
        /\ shown = r.shown
        /\ uploaded = upl
        /\ event = Event("open", NoForm)
        /\ exported = NotSaved

SeqsUpTo(S, n) == UNION {[1..k -> S] : k \in 0..n}

NonEmptySeqsUpTo(S, n) == UNION {[1..k -> S] : k \in 1..n}

(* ------------------- the dashboard session (Spec) ---------------------- *)

Names == {<<"A">>}

ThreeMarks == Student(StrCell(<<"A">>), StrCell(<<"1">>), <<80, 90, 85>>)

Rolls == {<<"1">>}

MarksTexts == {<<"8", "0", ",", "9", "0", ",", "8", "5">>,
               <<"7", "0">>,
               <<"8", "0", ",", " ", "9", "0", ",", " ", "a", "b", "c">>}

StudentTypes == {"Normal", "Graduate"}

(* The records the form can build from the inputs above. *)
FormRecords ==
    {NewStudent(Form(x[1], x[2], x[3], x[4]), ParseMarks(x[3]).v) :
        x \in {y \in Names \X Rolls \X MarksTexts \X StudentTypes : ParseMarks(y[3]).ok}}

(* The files a user holds: the export of each one-record store, and one of a
   two-record store. *)
UploadFiles ==
    {to_csv(to_dataframe(<<r>>)) : r \in FormRecords}
    \cup {to_csv(to_dataframe(<<ThreeMarks, GraduateStudent(StrCell(<<"A">>), StrCell(<<"1">>), <<70>>)>>))}

Init == Opened(<<>>, NoFile)

Next ==
    \/ \E n \in Names, r \in Rolls, m \in MarksTexts, t \in StudentTypes :
          SubmitForm(n, r, m, t, MaxStudents)
    \/ \E f \in UploadFiles : UploadFile(f, MaxStudents)
    \/ ClearUpload(MaxStudents)
    \/ Rerun(MaxStudents)

Spec == Init /\ [][Next]_vars

(* ------------- one form submission, every marks text (SpecForm) -------- *)

FormAlphabet == {"8", "0", ",", " ", "a", "-", "_"}

FormTexts == SeqsUpTo(FormAlphabet, MaxTextLen)

InitForm ==
    \/ Opened(<<>>, NoFile)
    \/ Opened(<<ThreeMarks>>, File(to_csv(to_dataframe(<<ThreeMarks>>))))

NextForm ==
    /\ event.kind = "open"
    /\ \E n \in Names, r \in Rolls, m \in FormTexts, t \in StudentTypes :
          SubmitForm(n, r, m, t, Len(students) + 2)

SpecForm == InitForm /\ [][NextForm]_vars

(* ------------- grades and statistics of drawn stores (SpecTable) ------- *)

GradeMarkValues == {0, 39, 40, 49, 50, 74, 75, 89, 90, 100}

StatMarkValues == {70, 80, 90}

GradeStores ==
    {<<[name |-> StrCell(<<"A">>), roll |-> StrCell(<<"1">>), marks |-> m, kind |-> k]>> :
        m \in NonEmptySeqsUpTo(GradeMarkValues, MaxGradeMarks),
        k \in {"Student", "GraduateStudent"}}

StatStores ==
    NonEmptySeqsUpTo({Student(StrCell(<<"A">>), StrCell(<<"1">>), m) :
                         m \in NonEmptySeqsUpTo(StatMarkValues, MaxStatMarks)},
                     MaxStatStudents)

InitTable == \E s \in GradeStores \cup StatStores : Opened(s, NoFile)

NextTable == event.kind = "open" /\ Rerun(Len(students))

SpecTable == InitTable /\ [][NextTable]_vars

(* ------------- export, new session, import (SpecRoundTrip) ------------- *)

RTNames == {<<"A">>, <<"N", "A">>, <<"a", ",", "b">>}

RTRolls == {<<"0", "0", "7">>, <<"R", "1">>}

RTMarks == {<<80, 90, 85>>, <<-5>>}

RTRecords ==
    {[name |-> StrCell(n), roll |-> StrCell(r), marks |-> m, kind |-> k] :
        n \in RTNames, r \in RTRolls, m \in RTMarks, k \in {"Student", "GraduateStudent"}}

InitRT == \E s \in NonEmptySeqsUpTo(RTRecords, MaxExportRows) : Opened(s, NoFile)

NextRT ==
    \/ event.kind = "open" /\ Download(Len(students))
    \/ event.kind = "download" /\ NewSession
    \/ event.kind = "session" /\ UploadSaved(Len(exported.table))

SpecRoundTrip == InitRT /\ [][NextRT]_vars

(* ------------------------------ the claims ------------------------------ *)

StandardLabels == {"A", "B", "C", "F"}

AlternateLabels == {"Pass", "Fail"}

(* The label the stated thresholds give a mark sequence of total t and length n. *)
StandardOK(g, t, n) ==
    /\ g \in StandardLabels
    /\ (g = "A") = (t >= 90 * n)
    /\ (g = "B") = (t >= 75 * n /\ t < 90 * n)
    /\ (g = "C") = (t >= 50 * n /\ t < 75 * n)
    /\ (g = "F") = (t < 50 * n)

AlternateOK(g, t, n) ==
    /\ g \in AlternateLabels
    /\ (g = "Pass") = (t >= 40 * n)
    /\ (g = "Fail") = (t < 40 * n)

BoundaryOK(kind, m, g) ==
    IF kind = "Student"
    THEN /\ (m = <<90>> => g = "A") /\ (m = <<89>> => g = "B")
         /\ (m = <<75>> => g = "B") /\ (m = <<74>> => g = "C")
         /\ (m = <<50>> => g = "C") /\ (m = <<49>> => g = "F")
    ELSE (m = <<40>> => g = "Pass") /\ (m = <<39>> => g = "Fail")

(* C1: for every record with a non-empty mark sequence, the grade shown is the
   one label of the record's policy that the inclusive thresholds give its
   mean: A/B/C/F at 90/75/50 for a Student, Pass/Fail at 40 for a
   GraduateStudent; the means 90, 89, 75, 74, 50, 49 and 40, 39 give
   A, B, B, C, C, F and Pass, Fail. *)
C1_Grades ==
    /\ Len(shown.records.df.rows) = Len(students)
    /\ \A i \in 1..Len(students) :
          LET m == students[i].marks
              g == shown.records.df.rows[i].Grade
          IN  Len(m) > 0 =>
                /\ IF students[i].kind = "Student"
                   THEN StandardOK(g, SumSeq(m), Len(m))
                   ELSE AlternateOK(g, SumSeq(m), Len(m))
                /\ BoundaryOK(students[i].kind, m, g)

C1_Witness ==
    /\ event.kind = "rerun"
    /\ Len(students) = 1
    /\ students[1].kind = "Student"
    /\ students[1].marks = <<100, 50, 75>>
    /\ shown.records.df.rows[1].Grade = "B"

DataLines(text) == Cardinality({j \in 1..Len(text) : text[j] = "\n"}) - 1

RowsMatch(list) ==
    LET rows == to_dataframe(list).rows
    IN  /\ Len(rows) = Len(list)
        /\ \A i \in 1..Len(list) :
              /\ rows[i].Name = list[i].name
              /\ rows[i].Roll = list[i].roll
              /\ rows[i].Marks = list[i].marks

Appended ==
    (IF shown'.form = "success" THEN 1 ELSE 0)
    + (IF shown'.upload = "success" THEN DataLines(uploaded'.data) ELSE 0)

(* C2: the table has one row per record of the store, in the store's order;
   a run adds one row per record it appends (one for an accepted form, one
   per row of an imported file), the rows there before stay an unchanged
   prefix, and records with the same roll are all kept. *)
C2_AppendOnly ==
    [][/\ RowsMatch(students')
       /\ Len(students') = Len(students) + Appended
       /\ SubSeq(to_dataframe(students').rows, 1, Len(students)) = to_dataframe(students).rows
      ]_vars

C2_Witness ==
    /\ event.kind = "submit"
    /\ shown.form = "success"
    /\ Len(students) = 2
    /\ students[1].roll = students[2].roll
    /\ students[1].marks # students[2].marks
    /\ to_dataframe(students).rows[2].Marks = students[2].marks

(* A scan of the marks text, character by character: q is "start" before a
   token's first character, "sign" after its sign, "digit" after a digit,
   "under" after an underscore, "trail" in the blanks after the digits. *)
RECURSIVE Scan(_, _, _)
Scan(text, i, q) ==
    IF q = "bad" THEN FALSE
    ELSE IF i > Len(text) THEN q \in {"digit", "trail"}
    ELSE LET c == text[i]
         IN  Scan(text, i + 1,
                  CASE q = "start" -> (IF IsSpace(c) THEN "start"
                                       ELSE IF c \in {"+", "-"} THEN "sign"
                                       ELSE IF IsDigit(c) THEN "digit" ELSE "bad")
                    [] q = "sign" -> (IF IsDigit(c) THEN "digit" ELSE "bad")
                    [] q = "digit" -> (IF IsDigit(c) THEN "digit"
                                       ELSE IF c = "_" THEN "under"
                                       ELSE IF IsSpace(c) THEN "trail"
                                       ELSE IF c = "," THEN "start" ELSE "bad")
                    [] q = "under" -> (IF IsDigit(c) THEN "digit" ELSE "bad")
                    [] q = "trail" -> (IF IsSpace(c) THEN "trail"
                                       ELSE IF c = "," THEN "start" ELSE "bad"))

(* Every comma-separated token is an integer once its blanks are trimmed. *)
WellFormedMarks(text) == Scan(text, 1, "start")

Commas(text) == Cardinality({j \in 1..Len(text) : text[j] = ","})

(* C3: a submission is accepted exactly when every comma-separated token of
   the marks text is an integer after trimming.  Accepted: one record of the
   chosen type, with the name, the roll and one mark per token, is appended
   and success is shown.  Rejected (a token that is no integer, or empty
   text): the form adds nothing, the store is as before, an error is shown. *)
C3_FormSubmission ==
    [][event'.kind = "submit" =>
         LET form == event'.form
             before == to_dataframe(students).rows
             after == shown'.records.df.rows
         IN  IF WellFormedMarks(form.marks)
             THEN /\ shown'.form = "success"
                  /\ Len(after) = Len(before) + 1
                  /\ SubSeq(after, 1, Len(before)) = before
                  /\ after[Len(after)].Name = StrCell(form.name)
                  /\ after[Len(after)].Roll = StrCell(form.roll)
                  /\ Len(after[Len(after)].Marks) = Commas(form.marks) + 1
                  /\ SubSeq(students', 1, Len(students)) = students
                  /\ students'[Len(after)].marks = after[Len(after)].Marks
                  /\ students'[Len(after)].kind =
                        (IF form.st_type = "Graduate" THEN "GraduateStudent" ELSE "Student")
                  /\ (~uploaded'.held => Len(students') = Len(students) + 1)
             ELSE /\ shown'.form = "error"
                  /\ after = before
                  /\ (~uploaded'.held => students' = students)
      ]_vars

C3_Witness ==
    /\ event.kind = "submit"
    /\ event.form.marks = <<"8", ",", "a">>
    /\ shown.form = "error"
    /\ uploaded.held
    /\ Len(shown.records.df.rows) = 2
    /\ students[1] = ThreeMarks

(* C4: a file exported from a non-empty store and imported into an empty one
   gives back, row by row, the Name, Roll and Marks of the exported rows. *)
C4_RoundTrip ==
    (event.kind = "upload" /\ exported.saved /\ uploaded = File(exported.data)) =>
        /\ Len(students) = Len(exported.table)
        /\ \A i \in 1..Len(students) :
              /\ students[i].name = exported.table[i].Name
              /\ students[i].roll = exported.table[i].Roll
              /\ students[i].marks = exported.table[i].Marks

(* C5: the statistics of a non-empty table are exactly three, taken over all
   marks of all records together: the average is the sum of all marks over
   their number, the highest and the lowest are their maximum and minimum. *)
C5_Statistics ==
    Len(students) > 0 =>
        LET st == shown.analysis.stats
            total == SumSeq([i \in 1..Len(students) |-> SumSeq(students[i].marks)])
            count == SumSeq([i \in 1..Len(students) |-> Len(students[i].marks)])
            all == UNION {{students[i].marks[j] : j \in 1..Len(students[i].marks)} :
                             i \in 1..Len(students)}
        IN  /\ shown.analysis.kind = "json"
            /\ DOMAIN st = {"Average Marks", "Highest Marks", "Lowest Marks"}
            /\ st["Average Marks"].den > 0
            /\ st["Average Marks"].num * count = total * st["Average Marks"].den
            /\ st["Highest Marks"] \in all /\ \A x \in all : x <= st["Highest Marks"]
            /\ st["Lowest Marks"] \in all /\ \A x \in all : st["Lowest Marks"] <= x

C5_Witness ==
    /\ event.kind = "rerun"
    /\ Len(students) = 2
    /\ students[1].marks = <<80, 90>>
    /\ students[2].marks = <<70>>
    /\ shown.analysis.stats["Average Marks"].num = 80 * shown.analysis.stats["Average Marks"].den
    /\ shown.analysis.stats["Highest Marks"] = 90
    /\ shown.analysis.stats["Lowest Marks"] = 70

EmptyViews(page) ==
    /\ page.records.kind = "info"
    /\ page.analysis.kind = "info"
    /\ page.viz = "info"
    /\ ~page.download.offered
    /\ page.upload # "notreached"

EmptyTableDefined ==
    /\ to_dataframe(<<>>).columns = <<"Name", "Roll", "Marks", "Grade">>
    /\ Len(to_dataframe(<<>>).rows) = 0
    /\ DOMAIN analyze(to_dataframe(<<>>)) = {}

(* C6: the table of an empty store has the four columns and no rows, and its
   analysis has no keys; a run whose views render an empty store (the store is
   empty after it, or was empty before it and the form added nothing) shows
   the informational message in the Records, Analysis and Visualization views,
   offers no export button, and reaches the end of the page. *)
C6_EmptyStore ==
    /\ [](EmptyTableDefined /\ (students = <<>> => EmptyViews(shown)))
    /\ [][(students = <<>> /\ shown'.form # "success") => EmptyViews(shown')]_vars

C6_Witness ==
    /\ event.kind = "submit"
    /\ shown.form = "error"
    /\ students = <<>>
    /\ EmptyViews(shown)

(* C7: after an import every imported row is graded by the standard policy:
   its Grade is the one of A, B, C, F that the standard thresholds give its
   marks, whatever the exported record's type and Grade were. *)
C7_ImportStandardPolicy ==
    event.kind = "upload" =>
        /\ shown.upload = "success"
        /\ Len(students) = Len(exported.table)
        /\ \A i \in 1..Len(students) :
              LET m == students[i].marks
              IN  StandardOK(to_dataframe(students).rows[i].Grade, SumSeq(m), Len(m))

C7_Witness ==
    /\ event.kind = "upload"
    /\ \E i \in 1..Len(students) :
          /\ exported.table[i].Grade = "Pass"
          /\ to_dataframe(students).rows[i].Grade = "B"

(* C8: what the Records and Analysis views show after a run is the table and
   the statistics of the store as it stands after that run. *)
C8_ViewsCurrent ==
    /\ shown.records = RecordsTab(to_dataframe(students))
    /\ shown.analysis = AnalysisTab(to_dataframe(students))

(* C9: a run in which the user neither submits the form nor uploads a new
   file leaves the store unchanged. *)
C9_RenderKeepsStore ==
    [][event'.kind \in {"rerun", "clear"} => students' = students]_vars

(* C10: whenever the views render a non-empty store, the Visualization view
   completes its three charts. *)
C10_ChartsComplete ==
    Len(shown.records.df.rows) > 0 => shown.viz = "charts"

====
